---- MODULE Spec2Model ----
(***************************************************************************)
(* State-machine model of the task_manager backend (FastAPI + SQLAlchemy + *)
(* python-jose + passlib): the user store, the task store, the server      *)
(* clock, the tokens handed to clients and the response of the last        *)
(* request.  One action per HTTP handler or public function.               *)
(*                                                                         *)
(* Time: `now' is the true UTC time in ticks, TicksPerSec ticks to the     *)
(* second.  A naive local datetime (datetime.now()) is a number of ticks   *)
(* on the server's wall clock, now + utcOffset seconds.  A JWT `exp' claim *)
(* is a whole number of seconds.                                           *)
(*                                                                         *)
(* Messages: the handlers' Russian detail strings are written as ASCII     *)
(* identifiers; two details are equal here iff they are equal in the code. *)
(***************************************************************************)
EXTENDS Integers, Sequences, FiniteSets, TLC

VARIABLES
    users,      \* table `users': set of rows [id, name, email, password]
    tasks,      \* table `tasks': set of rows [id, title, description, status, user_id]
    now,        \* true UTC time, in ticks
    utcOffset,  \* the server's local UTC offset in seconds (fixed per process)
    issued,     \* tokens signed so far with SECRET_KEY: [token, iat, ttl, via]
    ticks,      \* number of clock advances so far (bounds the run)
    last,       \* the last request and its response
    inflight    \* create_task requests suspended between SELECT and COMMIT

vars == <<users, tasks, now, utcOffset, issued, ticks, last, inflight>>

----------------------------------------------------------------------------
(* Bounds of the model *)

TicksPerSec == 2
MaxOffsetHours == 1
MaxTicks == 2
MaxTokens == 1
MaxUserId == 2
MaxTaskId == 2
MaxSessions == 2

(* Program constants *)

ACCESS_TOKEN_EXPIRE_SECONDS == 900
DEFAULT_EXPIRE_SECONDS == 900
MIN_PASSWORD_LENGTH == 8
SCHEMA_MIN_PASSWORD_LENGTH == 5
BCRYPT_MAX_BYTES == 72

SECRET_KEY == "your_default_secret_key"
ALGORITHM == "HS256"
ATTACKER_KEY == "some_other_key"

SecondsPerHour == 60 * 60

UtcOffsets == { h * SecondsPerHour : h \in (0 - MaxOffsetHours)..MaxOffsetHours }

----------------------------------------------------------------------------
(* Input alphabets *)

Names == {"alice", "bob"}
Emails == {"alice@example.com", "bob@example.com"}

\* Passwords are sequences of characters (one-character strings).
StrongPassword == <<"S", "e", "c", "u", "r", "e", "1", "!">>
OtherPassword == <<"O", "t", "h", "e", "r", "P", "w", "2", "?">>
WeakPassword == <<"s", "e", "c", "u", "r", "e", "p", "a", "s", "s", "w", "o", "r", "d">>
Passwords == {StrongPassword, OtherPassword, WeakPassword}

\* Passwords the CreateUser schema accepts (5 characters or more) that miss
\* one requirement of is_password_strong each.
ShortPassword == <<"S", "e", "1", "!", "c">>
NoUpperPassword == <<"s", "e", "c", "u", "r", "e", "1", "!">>
NoLowerPassword == <<"S", "O", "P", "S", "O", "P", "1", "!">>
NoDigitPassword == <<"S", "e", "c", "u", "r", "e", "!", "?">>
NoSpecialPassword == <<"S", "e", "c", "u", "r", "e", "1", "2">>
\* Two strong passwords of 73 characters that differ in the last one only.
LongPrefix ==
    [i \in 1..BCRYPT_MAX_BYTES |->
        IF i <= Len(StrongPassword) THEN StrongPassword[i] ELSE "e"]
LongPasswordA == LongPrefix \o <<"1">>
LongPasswordB == LongPrefix \o <<"2">>

RejectedPasswords == {ShortPassword, NoUpperPassword, NoLowerPassword,
                      NoDigitPassword, NoSpecialPassword, WeakPassword}

UpperChars == {"S", "O", "P"}
LowerChars == {"e", "c", "u", "r", "t", "h", "w", "s", "p", "a", "o", "d"}
DigitChars == {"1", "2"}
SpecialChars == {"!", "?"}

Titles == {"write report"}
Statuses == {"New", "InProgress", "Done"}

\* Token lifetimes, in seconds, a caller of create_access_token may pass.
Ttls == {1, ACCESS_TOKEN_EXPIRE_SECONDS}

\* Clock advances, in ticks.
ClockSteps == {1, 2 * TicksPerSec, ACCESS_TOKEN_EXPIRE_SECONDS * TicksPerSec,
               SecondsPerHour * TicksPerSec}

----------------------------------------------------------------------------
(* Clock and datetime arithmetic *)

\* The instant the model starts at, in ticks since the epoch.
StartTime == (MaxOffsetHours + 1) * SecondsPerHour * TicksPerSec

\* datetime.now(): the naive local wall-clock time, in ticks.
datetime_now == now + utcOffset * TicksPerSec

\* datetime.utcnow(), as jose reads it, in ticks.
datetime_utcnow == now

\* timedelta(seconds = s), in ticks.
timedelta(s) == s * TicksPerSec

\* calendar.timegm(dt.utctimetuple()) for a naive datetime dt: the fields of
\* dt are read as if they were UTC and the sub-second part is dropped.
timegm_utctimetuple(dt) == dt \div TicksPerSec

\* datetime.fromtimestamp(sec): the naive local datetime of epoch second sec.
datetime_fromtimestamp(sec) == (sec + utcOffset) * TicksPerSec

----------------------------------------------------------------------------
(* Credential Verifier: passlib CryptContext(schemes = ["bcrypt"]) *)

\* The bcrypt key schedule reads the first 72 bytes of the secret and no more
\* (passlib's bcrypt handler: truncate_size = 72, truncate_error = False).
bcrypt_truncate(secret) ==
    IF Len(secret) > BCRYPT_MAX_BYTES
    THEN SubSeq(secret, 1, BCRYPT_MAX_BYTES)
    ELSE secret

\* bcrypt_context.hash: a salted one-way hash; the salt is drawn by the caller.
bcrypt_hash(secret, salt) ==
    [scheme |-> "bcrypt", salt |-> salt, secret |-> bcrypt_truncate(secret)]

\* bcrypt_context.verify: recompute with the salt of the stored hash and compare.
bcrypt_verify(secret, hash) == bcrypt_hash(secret, hash.salt) = hash

Salts == {"salt1"}

----------------------------------------------------------------------------
(* Token Codec: python-jose jwt.encode / jwt.decode with HS256 *)

\* The HMAC of a payload under a key: equal iff payload and key are equal.
Sign(payload, key) == <<payload, key>>

EmptyToken == [form |-> "empty"]
GarbageToken == [form |-> "garbage"]
NoAuthorization == [form |-> "absent"]

\* jwt.encode: a datetime `exp' claim is converted with timegm(utctimetuple()).
jwt_encode(claims, key) ==
    LET payload == IF "exp" \in DOMAIN claims
                   THEN [k \in DOMAIN claims |->
                            IF k = "exp" THEN timegm_utctimetuple(claims[k])
                            ELSE claims[k]]
                   ELSE claims
    IN [form |-> "jwt", payload |-> payload, sig |-> Sign(payload, key)]

\* A decode that reads the payload without verifying the signature.
jwt_decode_unverified(token, key) ==
    IF token.form # "jwt" THEN [ok |-> FALSE, error |-> "JWTError"]
    ELSE IF "exp" \in DOMAIN token.payload
            /\ token.payload.exp < timegm_utctimetuple(datetime_utcnow)
        THEN [ok |-> FALSE, error |-> "ExpiredSignatureError"]
    ELSE [ok |-> TRUE, payload |-> token.payload]

\* jwt.decode(token, key, algorithms=[ALGORITHM]): JWTError on a string that is
\* not a JWT or whose signature does not verify; ExpiredSignatureError (a
\* JWTError) when the exp claim is before the current UTC second.
jwt_decode(token, key) ==
    IF token.form # "jwt" THEN [ok |-> FALSE, error |-> "JWTError"]
    ELSE IF token.sig # Sign(token.payload, key)
        THEN [ok |-> FALSE, error |-> "JWTError"]
    ELSE IF "exp" \in DOMAIN token.payload
            /\ token.payload.exp < timegm_utctimetuple(datetime_utcnow)
        THEN [ok |-> FALSE, error |-> "ExpiredSignatureError"]
    ELSE [ok |-> TRUE, payload |-> token.payload]

----------------------------------------------------------------------------
(* Responses *)

HTTPException(status_code, detail) ==
    [ok |-> FALSE, status |-> status_code, detail |-> detail]

Resolved(name, user_id) ==
    [ok |-> TRUE, user |-> [username |-> name, id |-> user_id]]

\* fastapi OAuth2PasswordBearer(tokenUrl="auth/token"): no Authorization
\* header (or another scheme) is 401 "Not authenticated"; otherwise the text
\* after "Bearer", which may be empty, is the token.
oauth2_scheme(authorization) ==
    IF authorization.form = "absent"
    THEN HTTPException(401, "Not authenticated")
    ELSE [ok |-> TRUE, token |-> authorization]

----------------------------------------------------------------------------
(* app/crud.py *)

\* expires_delta: timedelta | None.  A timedelta of s seconds is <<s>>, None
\* is the empty tuple; `if expires_delta:' is Python truthiness, false for
\* None and for timedelta(0).
NoTimedelta == <<>>

Truthy(expires_delta) ==
    expires_delta # NoTimedelta /\ expires_delta[1] # 0

crud_create_access_token(data, expires_delta) ==
    LET to_encode == data
        expire == IF Truthy(expires_delta)
                  THEN datetime_now + timedelta(expires_delta[1])
                  ELSE datetime_now + timedelta(DEFAULT_EXPIRE_SECONDS)
    IN jwt_encode([k \in DOMAIN to_encode \cup {"exp"} |->
                      IF k = "exp" THEN expire ELSE to_encode[k]], SECRET_KEY)

\* A verification that trusts the payload without checking the signature.
verify_access_token_unverified(token) ==
    IF token.form = "empty"
    THEN HTTPException(409, "token is empty")
    ELSE LET d == jwt_decode_unverified(token, SECRET_KEY)
         IN IF d.ok THEN [ok |-> TRUE, payload |-> d.payload]
            ELSE HTTPException(409, "invalid token")

verify_access_token(token) ==
    IF token.form = "empty"
    THEN HTTPException(409, "token is empty")
    ELSE LET d == jwt_decode(token, SECRET_KEY)
         IN IF d.ok THEN [ok |-> TRUE, payload |-> d.payload]
            ELSE HTTPException(409, "invalid token")

\* A guard that leaves expiry to jwt.decode and makes no comparison of its own.
crud_get_current_user_no_expiry(token) ==
    LET v == verify_access_token(token)
    IN IF ~v.ok THEN v
       ELSE LET payload == v.payload
            IN IF DOMAIN payload = {}
               THEN HTTPException(401, "user unauthorized")
               ELSE IF "sub" \notin DOMAIN payload \/ "id" \notin DOMAIN payload
               THEN HTTPException(401, "user unauthorized")
               ELSE IF "exp" \notin DOMAIN payload
               THEN HTTPException(400, "token expiry error")
               ELSE Resolved(payload.sub, payload.id)

crud_get_current_user(token) ==
    LET v == verify_access_token(token)
    IN IF ~v.ok THEN v
       ELSE LET payload == v.payload
            IN IF DOMAIN payload = {}
               THEN HTTPException(401, "user unauthorized")
               ELSE IF "sub" \notin DOMAIN payload \/ "id" \notin DOMAIN payload
               THEN HTTPException(401, "user unauthorized")
               ELSE IF "exp" \notin DOMAIN payload
               THEN HTTPException(400, "token expiry error")
               ELSE IF datetime_now > datetime_fromtimestamp(payload.exp)
               THEN HTTPException(401, "token lifetime expired")
               ELSE Resolved(payload.sub, payload.id)

generate_access_token(name, user_id, expires_delta) ==
    crud_create_access_token([sub |-> name, id |-> user_id], expires_delta)

----------------------------------------------------------------------------
(* app/routers/auth.py *)

\* A variant that tells an unknown account from a wrong password.
authenticate_user_reveals(user_name, password) ==
    LET found == {u \in users : u.name = user_name}
    IN IF found = {}
       THEN HTTPException(404, "user not found")
       ELSE IF \A u \in found : ~bcrypt_verify(password, u.password)
       THEN HTTPException(401, "incorrect data")
       ELSE [ok |-> TRUE, user |-> CHOOSE u \in found : TRUE]

authenticate_user(user_name, password) ==
    LET found == {u \in users : u.name = user_name}
    IN IF found = {} \/ \A u \in found : ~bcrypt_verify(password, u.password)
       THEN HTTPException(401, "incorrect data")
       ELSE [ok |-> TRUE, user |-> CHOOSE u \in found : TRUE]

\* A guard that looks at exp before sub and id.
auth_get_current_user_expiry_first(token) ==
    LET d == jwt_decode(token, SECRET_KEY)
    IN IF ~d.ok
       THEN HTTPException(401, "could not validate user")
       ELSE LET payload == d.payload
            IN IF "exp" \notin DOMAIN payload
               THEN HTTPException(400, "access token not provided")
               ELSE IF "sub" \notin DOMAIN payload \/ "id" \notin DOMAIN payload
               THEN HTTPException(401, "could not validate user")
               ELSE IF datetime_now > datetime_fromtimestamp(payload.exp)
               THEN HTTPException(403, "token expired")
               ELSE Resolved(payload.sub, payload.id)

\* A guard that resolves only principals still in the user store.
auth_get_current_user_checks_store(token) ==
    LET d == jwt_decode(token, SECRET_KEY)
    IN IF ~d.ok
       THEN HTTPException(401, "could not validate user")
       ELSE LET payload == d.payload
            IN IF "sub" \notin DOMAIN payload \/ "id" \notin DOMAIN payload
               THEN HTTPException(401, "could not validate user")
               ELSE IF "exp" \notin DOMAIN payload
               THEN HTTPException(400, "access token not provided")
               ELSE IF datetime_now > datetime_fromtimestamp(payload.exp)
               THEN HTTPException(403, "token expired")
               ELSE IF ~\E u \in users : u.id = payload.id /\ u.name = payload.sub
               THEN HTTPException(401, "could not validate user")
               ELSE Resolved(payload.sub, payload.id)

auth_get_current_user(token) ==
    LET d == jwt_decode(token, SECRET_KEY)
    IN IF ~d.ok
       THEN HTTPException(401, "could not validate user")
       ELSE LET payload == d.payload
            IN IF "sub" \notin DOMAIN payload \/ "id" \notin DOMAIN payload
               THEN HTTPException(401, "could not validate user")
               ELSE IF "exp" \notin DOMAIN payload
               THEN HTTPException(400, "access token not provided")
               ELSE IF datetime_now > datetime_fromtimestamp(payload.exp)
               THEN HTTPException(403, "token expired")
               ELSE Resolved(payload.sub, payload.id)

auth_create_access_token(name, user_id, expires_delta) ==
    LET encode == [sub |-> name, id |-> user_id]
        expires == datetime_now + timedelta(expires_delta)
    IN jwt_encode([sub |-> encode.sub, id |-> encode.id, exp |-> expires],
                  SECRET_KEY)

----------------------------------------------------------------------------
(* The last request and its response *)

NoBody == [kind |-> "none"]

Response(op, req, status, detail, body, db) ==
    [op |-> op, req |-> req, status |-> status, detail |-> detail,
     body |-> body, db |-> db]

\* A dependency or handler that raised HTTPException e.
Raised(op, req, e, db) == Response(op, req, e.status, e.detail, NoBody, db)

\* The tokens a client can put in an Authorization header: none, the empty
\* string, a string that is no JWT, a token the server issued, an issued
\* token with its payload altered (signature kept), and an issued token's
\* payload signed again with a key that is not the server's.
Tampered(token) ==
    [token EXCEPT !.payload = [@ EXCEPT !.id = @ + 1]]

Resigned(token) ==
    [token EXCEPT !.sig = Sign(token.payload, ATTACKER_KEY)]

Authorizations ==
    {NoAuthorization, EmptyToken, GarbageToken}
    \cup {i.token : i \in issued}
    \cup {Tampered(i.token) : i \in {j \in issued : "id" \in DOMAIN j.token.payload}}
    \cup {Resigned(i.token) : i \in issued}

----------------------------------------------------------------------------
(* The clock *)

Tick(d) ==
    /\ ticks < MaxTicks
    /\ now' = now + d
    /\ ticks' = ticks + 1
    /\ UNCHANGED <<users, tasks, utcOffset, issued, last, inflight>>

----------------------------------------------------------------------------
(* app/routers/auth.py: the endpoints *)

\* The record kept of a token signed with SECRET_KEY: when it was made, for
\* how long and for whom.
Issue(token, ttl, via, name, user_id) ==
    [token |-> token, iat |-> now, ttl |-> ttl, via |-> via,
     user |-> [name |-> name, id |-> user_id]]

\* A login that, on success, also stores a fresh hash of the password.
login_rehashes(username, password) ==
    LET req == [username |-> username, password |-> password]
        db == <<"SELECT users WHERE name">>
        a == authenticate_user(username, password)
    IN IF ~a.ok
       THEN /\ last' = Raised("login", req, a, db)
            /\ UNCHANGED <<users, tasks, now, utcOffset, issued, ticks, inflight>>
       ELSE LET token == auth_create_access_token(
                             a.user.name, a.user.id, ACCESS_TOKEN_EXPIRE_SECONDS)
                issue == Issue(token, ACCESS_TOKEN_EXPIRE_SECONDS, "login",
                               a.user.name, a.user.id)
            IN /\ Cardinality(issued \cup {issue}) <= MaxTokens
               /\ issued' = issued \cup {issue}
               /\ users' = (users \ {a.user}) \cup
                     {[a.user EXCEPT !.password = bcrypt_hash(password, "salt2")]}
               /\ last' = Response("login", req, 200, "",
                              [kind |-> "token", access_token |-> token,
                               token_type |-> "bearer"],
                              db \o <<"UPDATE users", "COMMIT">>)
               /\ UNCHANGED <<tasks, now, utcOffset, ticks, inflight>>

\* POST /auth/token
login(username, password) ==
    LET req == [username |-> username, password |-> password]
        db == <<"SELECT users WHERE name">>
        a == authenticate_user(username, password)
    IN IF ~a.ok
       THEN /\ last' = Raised("login", req, a, db)
            /\ UNCHANGED <<users, tasks, now, utcOffset, issued, ticks, inflight>>
       ELSE LET token == auth_create_access_token(
                             a.user.name, a.user.id, ACCESS_TOKEN_EXPIRE_SECONDS)
                issue == Issue(token, ACCESS_TOKEN_EXPIRE_SECONDS, "login",
                               a.user.name, a.user.id)
            IN /\ Cardinality(issued \cup {issue}) <= MaxTokens
               /\ issued' = issued \cup {issue}
               /\ last' = Response("login", req, 200, "",
                              [kind |-> "token", access_token |-> token,
                               token_type |-> "bearer"], db)
               /\ UNCHANGED <<users, tasks, now, utcOffset, ticks, inflight>>

\* A direct call of auth.create_access_token(name, user_id, expires_delta).
create_access_token(name, user_id, expires_delta) ==
    LET token == auth_create_access_token(name, user_id, expires_delta)
        issue == Issue(token, expires_delta, "create_access_token", name, user_id)
    IN /\ Cardinality(issued \cup {issue}) <= MaxTokens
       /\ issued' = issued \cup {issue}
       /\ last' = Response("create_access_token",
                      [name |-> name, user_id |-> user_id,
                       expires_delta |-> expires_delta],
                      200, "", [kind |-> "token", access_token |-> token,
                                token_type |-> "bearer"], <<>>)
       /\ UNCHANGED <<users, tasks, now, utcOffset, ticks, inflight>>

\* A direct call of crud.generate_access_token(name, user_id, expires_delta),
\* with expires_delta a timedelta or left out.
GenerateAccessToken(name, user_id, expires_delta) ==
    LET data == [sub |-> name, id |-> user_id]
        token == generate_access_token(name, user_id, expires_delta)
        issue == [token |-> token, iat |-> now, ttl |-> expires_delta,
                  via |-> "generate_access_token", data |-> data,
                  user |-> [name |-> name, id |-> user_id]]
    IN /\ Cardinality(issued \cup {issue}) <= MaxTokens
       /\ issued' = issued \cup {issue}
       /\ last' = Response("generate_access_token",
                      [name |-> name, user_id |-> user_id,
                       expires_delta |-> expires_delta],
                      200, "", [kind |-> "token", access_token |-> token,
                                token_type |-> "bearer"], <<>>)
       /\ UNCHANGED <<users, tasks, now, utcOffset, ticks, inflight>>

\* Depends(get_current_user) of app.routers.auth behind Depends(oauth2_scheme).
AuthGuard(authorization) ==
    LET s == oauth2_scheme(authorization)
    IN IF s.ok THEN auth_get_current_user(s.token) ELSE s

\* GET /auth/read_current_user
read_current_user(authorization) ==
    LET req == [authorization |-> authorization]
        g == AuthGuard(authorization)
    IN /\ last' = IF ~g.ok
                  THEN Raised("read_current_user", req, g, <<>>)
                  ELSE Response("read_current_user", req, 200, "",
                                [kind |-> "current_user", User |-> g.user], <<>>)
       /\ UNCHANGED <<users, tasks, now, utcOffset, issued, ticks, inflight>>

----------------------------------------------------------------------------
(* The stores: SQLite tables behind SQLAlchemy *)

\* Optional[str] = None
None == "None"
Descriptions == {"quarterly figures", None}

Max(S) == CHOOSE m \in S : \A x \in S : x <= m

\* INTEGER PRIMARY KEY of SQLite: the largest rowid in the table plus one.
NextId(rows) == IF rows = {} THEN 1 ELSE Max({r.id : r \in rows}) + 1

\* A users table whose only UNIQUE column is email.
UserIntegrityError_email_only(r, others) ==
    \E o \in others : o.email = r.email

\* UNIQUE(name), UNIQUE(email) of table users: would row r break them
\* beside the other rows?
UserIntegrityError(r, others) ==
    \E o \in others : o.name = r.name \/ o.email = r.email

ReadUser(u) == [id |-> u.id, name |-> u.name, email |-> u.email]

ReadTask(t) ==
    [id |-> t.id, title |-> t.title, description |-> t.description,
     status |-> t.status]

----------------------------------------------------------------------------
(* app/routers/users.py *)

HasChar(password, class) == \E i \in 1..Len(password) : password[i] \in class

\* A policy without the length requirement.
is_password_strong_any_length(password) ==
    IF ~HasChar(password, UpperChars) THEN FALSE
    ELSE IF ~HasChar(password, LowerChars) THEN FALSE
    ELSE IF ~HasChar(password, DigitChars) THEN FALSE
    ELSE IF ~HasChar(password, SpecialChars) THEN FALSE
    ELSE TRUE

is_password_strong(password) ==
    IF Len(password) < MIN_PASSWORD_LENGTH THEN FALSE
    ELSE IF ~HasChar(password, UpperChars) THEN FALSE
    ELSE IF ~HasChar(password, LowerChars) THEN FALSE
    ELSE IF ~HasChar(password, DigitChars) THEN FALSE
    ELSE IF ~HasChar(password, SpecialChars) THEN FALSE
    ELSE TRUE

\* GET /users/
all_users ==
    LET db == <<"SELECT users">>
    IN /\ last' = IF users = {}
                  THEN Response("all_users", NoBody, 500,
                                "404: users not found", NoBody, db)
                  ELSE Response("all_users", NoBody, 200, "",
                                [kind |-> "users",
                                 items |-> {ReadUser(u) : u \in users}], db)
       /\ UNCHANGED <<users, tasks, now, utcOffset, issued, ticks, inflight>>

\* GET /users/{user_id}
get_user_id(user_id) ==
    LET req == [user_id |-> user_id]
        db == <<"SELECT users WHERE id">>
        found == {u \in users : u.id = user_id}
    IN /\ last' = IF found = {}
                  THEN Response("get_user_id", req, 404, "user not found",
                                NoBody, db)
                  ELSE Response("get_user_id", req, 200, "",
                                [kind |-> "user",
                                 user |-> ReadUser(CHOOSE u \in found : TRUE)], db)
       /\ UNCHANGED <<users, tasks, now, utcOffset, issued, ticks, inflight>>

\* POST /users/
create_user(name, email, password, salt) ==
    LET req == [name |-> name, email |-> email, password |-> password]
        new_user == [id |-> NextId(users), name |-> name, email |-> email,
                     password |-> bcrypt_hash(password, salt)]
    IN IF Len(password) < SCHEMA_MIN_PASSWORD_LENGTH
       THEN /\ last' = Response("create_user", req, 422, "validation error",
                                NoBody, <<>>)
            /\ UNCHANGED <<users, tasks, now, utcOffset, issued, ticks, inflight>>
       ELSE IF ~is_password_strong(password)
       THEN /\ last' = Response("create_user", req, 400,
                                "password does not meet the requirements",
                                NoBody, <<>>)
            /\ UNCHANGED <<users, tasks, now, utcOffset, issued, ticks, inflight>>
       ELSE IF UserIntegrityError(new_user, users)
       THEN /\ last' = Response("create_user", req, 400,
                                "this user already exists", NoBody,
                                <<"INSERT users", "ROLLBACK">>)
            /\ UNCHANGED <<users, tasks, now, utcOffset, issued, ticks, inflight>>
       ELSE /\ new_user.id <= MaxUserId
            /\ users' = users \cup {new_user}
            /\ last' = Response("create_user", req, 201, "",
                           [kind |-> "created_user", name |-> name,
                            email |-> email, password |-> new_user.password],
                           <<"INSERT users", "COMMIT", "SELECT users WHERE id">>)
            /\ UNCHANGED <<tasks, now, utcOffset, issued, ticks, inflight>>

\* PUT /users/{user_id}
update_user(user_id, name, email, password, salt) ==
    LET req == [user_id |-> user_id, name |-> name, email |-> email,
                password |-> password]
        found == {u \in users : u.id = user_id}
    IN IF Len(password) < SCHEMA_MIN_PASSWORD_LENGTH
       THEN /\ last' = Response("update_user", req, 422, "validation error",
                                NoBody, <<>>)
            /\ UNCHANGED <<users, tasks, now, utcOffset, issued, ticks, inflight>>
       ELSE IF found = {}
       THEN /\ last' = Response("update_user", req, 404, "user not found",
                                NoBody, <<"SELECT users WHERE id">>)
            /\ UNCHANGED <<users, tasks, now, utcOffset, issued, ticks, inflight>>
       ELSE IF Len(password) > 0 /\ ~is_password_strong(password)
       THEN /\ last' = Response("update_user", req, 400,
                                "password does not meet the requirements",
                                NoBody, <<"SELECT users WHERE id">>)
            /\ UNCHANGED <<users, tasks, now, utcOffset, issued, ticks, inflight>>
       ELSE LET user == CHOOSE u \in found : TRUE
                updated == [id |-> user.id, name |-> name, email |-> email,
                            password |-> IF Len(password) > 0
                                         THEN bcrypt_hash(password, salt)
                                         ELSE user.password]
            IN IF UserIntegrityError(updated, users \ {user})
               THEN /\ last' = Response("update_user", req, 400,
                                   "user with this email already exists",
                                   NoBody, <<"SELECT users WHERE id",
                                             "UPDATE users", "ROLLBACK">>)
                    /\ UNCHANGED <<users, tasks, now, utcOffset, issued, ticks, inflight>>
               ELSE /\ users' = (users \ {user}) \cup {updated}
                    /\ last' = Response("update_user", req, 200, "",
                                   [kind |-> "user", user |-> ReadUser(updated)],
                                   <<"SELECT users WHERE id", "UPDATE users",
                                     "COMMIT">>)
                    /\ UNCHANGED <<tasks, now, utcOffset, issued, ticks, inflight>>

\* DELETE /users/{user_id}.  relationship('Task', back_populates='user') has
\* no delete cascade: the flush sets user_id of the user's tasks to NULL,
\* which tasks.user_id (nullable=False) refuses; the IntegrityError is not
\* caught and the transaction is rolled back.
delete_user(user_id) ==
    LET req == [user_id |-> user_id]
        found == {u \in users : u.id = user_id}
    IN IF found = {}
       THEN /\ last' = Response("delete_user", req, 404, "user not found",
                                NoBody, <<"SELECT users WHERE id">>)
            /\ UNCHANGED <<users, tasks, now, utcOffset, issued, ticks, inflight>>
       ELSE IF \E t \in tasks : t.user_id = user_id
       THEN /\ last' = Response("delete_user", req, 500,
                                "Internal Server Error", NoBody,
                                <<"SELECT users WHERE id",
                                  "SELECT tasks WHERE user_id",
                                  "UPDATE tasks", "ROLLBACK">>)
            /\ UNCHANGED <<users, tasks, now, utcOffset, issued, ticks, inflight>>
       ELSE /\ users' = users \ found
            /\ last' = Response("delete_user", req, 204, "", NoBody,
                           <<"SELECT users WHERE id",
                             "SELECT tasks WHERE user_id",
                             "DELETE users", "COMMIT">>)
            /\ UNCHANGED <<tasks, now, utcOffset, issued, ticks, inflight>>

----------------------------------------------------------------------------
(* app/routers/tasks.py: every endpoint depends on crud.get_current_user *)

\* A guard that reads the claims of a JWT without verifying it.
TaskGuard_unverified(authorization) ==
    IF authorization.form = "jwt"
       /\ {"sub", "id"} \subseteq DOMAIN authorization.payload
    THEN Resolved(authorization.payload.sub, authorization.payload.id)
    ELSE HTTPException(401, "Not authenticated")

\* Depends(get_current_user) of app.crud behind Depends(oauth2_scheme).
TaskGuard(authorization) ==
    LET s == oauth2_scheme(authorization)
    IN IF s.ok THEN crud_get_current_user(s.token) ELSE s

\* POST /tasks/
create_task(authorization, title, description, status) ==
    LET req == [authorization |-> authorization, title |-> title,
                description |-> description, status |-> status]
        g == TaskGuard(authorization)
        others == <<users, now, utcOffset, issued, ticks, inflight>>
    IN IF ~g.ok
       THEN /\ last' = Raised("create_task", req, g, <<>>)
            /\ UNCHANGED <<tasks, others>>
       ELSE IF status \notin Statuses
       THEN /\ last' = Response("create_task", req, 422, "validation error",
                                NoBody, <<>>)
            /\ UNCHANGED <<tasks, others>>
       ELSE IF Cardinality({t \in tasks : t.title = title}) > 1
       THEN /\ last' = Response("create_task", req, 500,
                                "Internal Server Error", NoBody,
                                <<"SELECT tasks WHERE title">>)
            /\ UNCHANGED <<tasks, others>>
       ELSE IF \E t \in tasks : t.title = title
       THEN /\ last' = Response("create_task", req, 400,
                                "this task already exists", NoBody,
                                <<"SELECT tasks WHERE title">>)
            /\ UNCHANGED <<tasks, others>>
       ELSE IF description = None
       THEN /\ last' = Response("create_task", req, 500,
                                "Internal Server Error", NoBody,
                                <<"SELECT tasks WHERE title", "INSERT tasks",
                                  "ROLLBACK">>)
            /\ UNCHANGED <<tasks, others>>
       ELSE LET db_task == [id |-> NextId(tasks), title |-> title,
                            description |-> description, status |-> status,
                            user_id |-> g.user.id]
            IN /\ db_task.id <= MaxTaskId
               /\ tasks' = tasks \cup {db_task}
               /\ last' = Response("create_task", req, 201, "",
                              [kind |-> "task", task |-> db_task],
                              <<"SELECT tasks WHERE title", "INSERT tasks",
                                "COMMIT">>)
               /\ UNCHANGED others

\* POST /tasks/ run by one of several concurrent requests, each with its own
\* AsyncSession.  The handler is a coroutine: it runs up to the answer of
\* SELECT ... WHERE title (await db.execute), is suspended, and is resumed
\* later for INSERT and COMMIT (await db.commit); other requests run in
\* between.  create_task_select is the first part, create_task_commit the
\* second; create_task above is the two run back to back.
Sessions == 1..MaxSessions

create_task_select(session, authorization, title, description, status) ==
    LET req == [authorization |-> authorization, title |-> title,
                description |-> description, status |-> status]
        g == TaskGuard(authorization)
        others == <<users, tasks, now, utcOffset, issued, ticks>>
    IN /\ ~\E r \in inflight : r.session = session
       /\ IF ~g.ok
          THEN /\ last' = Raised("create_task", req, g, <<>>)
               /\ UNCHANGED <<inflight, others>>
          ELSE IF status \notin Statuses
          THEN /\ last' = Response("create_task", req, 422, "validation error",
                                   NoBody, <<>>)
               /\ UNCHANGED <<inflight, others>>
          ELSE IF Cardinality({t \in tasks : t.title = title}) > 1
          THEN /\ last' = Response("create_task", req, 500,
                                   "Internal Server Error", NoBody,
                                   <<"SELECT tasks WHERE title">>)
               /\ UNCHANGED <<inflight, others>>
          ELSE IF \E t \in tasks : t.title = title
          THEN /\ last' = Response("create_task", req, 400,
                                   "this task already exists", NoBody,
                                   <<"SELECT tasks WHERE title">>)
               /\ UNCHANGED <<inflight, others>>
          ELSE /\ inflight' = inflight \cup
                     {[session |-> session, req |-> req, user_id |-> g.user.id]}
               /\ UNCHANGED <<last, others>>

create_task_commit(r) ==
    LET others == <<users, now, utcOffset, issued, ticks>>
    IN /\ r \in inflight
       /\ inflight' = inflight \ {r}
       /\ IF r.req.description = None
          THEN /\ last' = Response("create_task", r.req, 500,
                                   "Internal Server Error", NoBody,
                                   <<"SELECT tasks WHERE title", "INSERT tasks",
                                     "ROLLBACK">>)
               /\ UNCHANGED <<tasks, others>>
          ELSE LET db_task == [id |-> NextId(tasks), title |-> r.req.title,
                               description |-> r.req.description,
                               status |-> r.req.status, user_id |-> r.user_id]
               IN /\ db_task.id <= MaxTaskId
                  /\ tasks' = tasks \cup {db_task}
                  /\ last' = Response("create_task", r.req, 201, "",
                                 [kind |-> "task", task |-> db_task],
                                 <<"SELECT tasks WHERE title", "INSERT tasks",
                                   "COMMIT">>)
                  /\ UNCHANGED others

\* GET /tasks/
read_task(authorization) ==
    LET req == [authorization |-> authorization]
        g == TaskGuard(authorization)
    IN /\ last' = IF ~g.ok
                  THEN Raised("read_task", req, g, <<>>)
                  ELSE Response("read_task", req, 200, "",
                          [kind |-> "tasks",
                           items |-> {ReadTask(t) :
                                        t \in {x \in tasks : x.user_id = g.user.id}}],
                          <<"SELECT tasks WHERE user_id">>)
       /\ UNCHANGED <<users, tasks, now, utcOffset, issued, ticks, inflight>>

\* GET /tasks/{task_id}
get_task_id(authorization, task_id) ==
    LET req == [authorization |-> authorization, task_id |-> task_id]
        g == TaskGuard(authorization)
        db == <<"SELECT tasks WHERE id AND user_id">>
    IN /\ last' =
            IF ~g.ok THEN Raised("get_task_id", req, g, <<>>)
            ELSE LET found == {t \in tasks : t.id = task_id /\ t.user_id = g.user.id}
                 IN IF found = {}
                    THEN Response("get_task_id", req, 404, "task not found",
                                  NoBody, db)
                    ELSE Response("get_task_id", req, 200, "",
                                  [kind |-> "task",
                                   task |-> ReadTask(CHOOSE t \in found : TRUE)], db)
       /\ UNCHANGED <<users, tasks, now, utcOffset, issued, ticks, inflight>>

\* An update that looks the task up by id alone.
update_task_any_owner(authorization, task_id, status) ==
    LET req == [authorization |-> authorization, task_id |-> task_id,
                status |-> status]
        g == TaskGuard(authorization)
        db == <<"SELECT tasks WHERE id">>
        others == <<users, now, utcOffset, issued, ticks, inflight>>
    IN IF ~g.ok
       THEN /\ last' = Raised("update_task", req, g, <<>>)
            /\ UNCHANGED <<tasks, others>>
       ELSE LET found == {t \in tasks : t.id = task_id}
            IN IF found = {}
               THEN /\ last' = Response("update_task", req, 404,
                                   "task not found", NoBody, db)
                    /\ UNCHANGED <<tasks, others>>
               ELSE LET db_task == CHOOSE t \in found : TRUE
                        updated == [db_task EXCEPT !.status = status]
                    IN /\ tasks' = (tasks \ {db_task}) \cup {updated}
                       /\ last' = Response("update_task", req, 200, "",
                                      [kind |-> "task_status",
                                       status |-> updated.status],
                                      db \o <<"UPDATE tasks", "COMMIT">>)
                       /\ UNCHANGED others

\* PUT /tasks/{task_id}
update_task(authorization, task_id, status) ==
    LET req == [authorization |-> authorization, task_id |-> task_id,
                status |-> status]
        g == TaskGuard(authorization)
        db == <<"SELECT tasks WHERE id AND user_id">>
        others == <<users, now, utcOffset, issued, ticks, inflight>>
    IN IF ~g.ok
       THEN /\ last' = Raised("update_task", req, g, <<>>)
            /\ UNCHANGED <<tasks, others>>
       ELSE LET found == {t \in tasks : t.id = task_id /\ t.user_id = g.user.id}
            IN IF found = {}
               THEN /\ last' = Response("update_task", req, 404,
                                   "task not found", NoBody, db)
                    /\ UNCHANGED <<tasks, others>>
               ELSE LET db_task == CHOOSE t \in found : TRUE
                        updated == [db_task EXCEPT !.status = status]
                    IN /\ tasks' = (tasks \ {db_task}) \cup {updated}
                       /\ last' = Response("update_task", req, 200, "",
                                      [kind |-> "task_status",
                                       status |-> updated.status],
                                      db \o <<"UPDATE tasks", "COMMIT">>)
                       /\ UNCHANGED others

\* DELETE /tasks/{task_id}
delete_task(authorization, task_id) ==
    LET req == [authorization |-> authorization, task_id |-> task_id]
        g == TaskGuard(authorization)
        db == <<"SELECT tasks WHERE id AND user_id">>
        others == <<users, now, utcOffset, issued, ticks, inflight>>
    IN IF ~g.ok
       THEN /\ last' = Raised("delete_task", req, g, <<>>)
            /\ UNCHANGED <<tasks, others>>
       ELSE LET found == {t \in tasks : t.id = task_id /\ t.user_id = g.user.id}
            IN IF found = {}
               THEN /\ last' = Response("delete_task", req, 404,
                                   "task not found", NoBody, db)
                    /\ UNCHANGED <<tasks, others>>
               ELSE /\ tasks' = tasks \ found
                    /\ last' = Response("delete_task", req, 200,
                                   "task deleted", NoBody,
                                   db \o <<"DELETE tasks", "COMMIT">>)
                    /\ UNCHANGED others

----------------------------------------------------------------------------
(* The system *)

Startup == Response("startup", NoBody, 0, "", NoBody, <<>>)

UserIds == 1..MaxUserId
TaskIds == 1..MaxTaskId
StrongPasswords == {StrongPassword, OtherPassword}

\* Authentication with the clock running: one account (alice, who may be
\* renamed to bob), logins, both guards, and the server in any time zone.
Init ==
    /\ users = {}
    /\ tasks = {}
    /\ now \in {StartTime, StartTime + 1}
    /\ utcOffset \in UtcOffsets
    /\ issued = {}
    /\ ticks = 0
    /\ last = Startup
    /\ inflight = {}

Next ==
    \/ \E d \in ClockSteps : Tick(d)
    \/ \E n \in Names, p \in Passwords : login(n, p)
    \/ \E a \in Authorizations : read_current_user(a)
    \/ \E a \in Authorizations : read_task(a)
    \/ \E p \in StrongPasswords, s \in Salts :
          create_user("alice", "alice@example.com", p, s)
    \/ \E n \in Names, p \in StrongPasswords, s \in Salts :
          update_user(1, n, "alice@example.com", p, s)
    \/ delete_user(1)

Spec == Init /\ [][Next]_vars

\* The token codec and the two guards on their own: the clock, tokens made
\* by create_access_token and, from the start, any token a holder of
\* SECRET_KEY may have signed (with any subset of the three claims).
SignedPayloads ==
    { [k \in S |-> IF k = "sub" THEN "alice" ELSE IF k = "id" THEN 1 ELSE e] :
        S \in SUBSET {"sub", "id", "exp"},
        e \in {StartTime \div TicksPerSec, StartTime \div TicksPerSec + 1} }

InitToken ==
    /\ users = {}
    /\ tasks = {}
    /\ now \in {StartTime, StartTime + 1}
    /\ utcOffset \in UtcOffsets
    /\ issued \in {{}} \cup
          { {[token |-> [form |-> "jwt", payload |-> c, sig |-> Sign(c, SECRET_KEY)],
              iat |-> now, via |-> "key holder"]} : c \in SignedPayloads }
    /\ ticks = 0
    /\ last = Startup
    /\ inflight = {}

NextToken ==
    \/ \E d \in ClockSteps : Tick(d)
    \/ \E d \in Ttls : create_access_token("alice", 1, d)
    \/ \E a \in Authorizations : read_current_user(a)
    \/ \E a \in Authorizations : read_task(a)

SpecToken == InitToken /\ [][NextToken]_vars

\* Every endpoint of the three routers, at one instant.
InitAccess ==
    /\ users = {}
    /\ tasks = {}
    /\ now = StartTime
    /\ utcOffset = 0
    /\ issued = {}
    /\ ticks = 0
    /\ last = Startup
    /\ inflight = {}

NextAccess ==
    \/ \E n \in Names, p \in {StrongPassword, WeakPassword} : login(n, p)
    \/ \E a \in Authorizations : read_current_user(a)
    \/ all_users
    \/ \E i \in UserIds : get_user_id(i)
    \/ \E n \in Names, e \in Emails, p \in {StrongPassword, WeakPassword},
          s \in Salts : create_user(n, e, p, s)
    \/ \E i \in UserIds, n \in Names, p \in {StrongPassword, WeakPassword},
          s \in Salts : update_user(i, n, "alice@example.com", p, s)
    \/ \E i \in UserIds : delete_user(i)
    \/ \E a \in Authorizations, t \in Titles, d \in Descriptions :
          create_task(a, t, d, "New")
    \/ \E a \in Authorizations : read_task(a)
    \/ \E a \in Authorizations, i \in TaskIds : get_task_id(a, i)
    \/ \E a \in Authorizations, i \in TaskIds, s \in {"Done", "Archived"} :
          update_task(a, i, s)
    \/ \E a \in Authorizations, i \in TaskIds : delete_task(a, i)

SpecAccess == InitAccess /\ [][NextAccess]_vars

\* The task endpoints with two accounts logged in: alice (id 1) and bob
\* (id 2) each hold a token from login and work on tasks under two titles.
MoreTitles == Titles \cup {"book flight"}

InitOwner ==
    /\ users = { [id |-> 1, name |-> "alice", email |-> "alice@example.com",
                  password |-> bcrypt_hash(StrongPassword, "salt1")],
                 [id |-> 2, name |-> "bob", email |-> "bob@example.com",
                  password |-> bcrypt_hash(OtherPassword, "salt1")] }
    /\ tasks = {}
    /\ now = StartTime
    /\ utcOffset = 0
    /\ issued = { Issue(auth_create_access_token(u.name, u.id,
                                                 ACCESS_TOKEN_EXPIRE_SECONDS),
                        ACCESS_TOKEN_EXPIRE_SECONDS, "login", u.name, u.id) :
                    u \in users }
    /\ ticks = 0
    /\ last = Startup
    /\ inflight = {}

IssuedTokens == {i.token : i \in issued}

NextOwner ==
    \/ \E a \in IssuedTokens, t \in MoreTitles : create_task(a, t, "quarterly figures", "New")
    \/ \E a \in IssuedTokens : read_task(a)
    \/ \E a \in IssuedTokens, i \in TaskIds : get_task_id(a, i)
    \/ \E a \in IssuedTokens, i \in TaskIds : update_task(a, i, "Done")
    \/ \E a \in IssuedTokens, i \in TaskIds : delete_task(a, i)
    \/ \E i \in UserIds : delete_user(i)

SpecOwner == InitOwner /\ [][NextOwner]_vars

\* The task endpoints under concurrent requests: create_task runs in up to
\* MaxSessions sessions at a time, interleaved at its await points.
NextRace ==
    \/ \E s \in Sessions, a \in IssuedTokens, t \in Titles, d \in Descriptions :
          create_task_select(s, a, t, d, "New")
    \/ \E r \in inflight : create_task_commit(r)
    \/ \E a \in IssuedTokens : read_task(a)
    \/ \E a \in IssuedTokens, i \in TaskIds : delete_task(a, i)

SpecRace == InitOwner /\ [][NextRace]_vars

\* crud.generate_access_token called directly, with and without a lifetime
\* (a zero lifetime included), and its tokens shown to both guards.
OptionalTimedeltas == {NoTimedelta} \cup {<<t>> : t \in {0} \cup Ttls}

InitCodec ==
    /\ users = {}
    /\ tasks = {}
    /\ now \in {StartTime, StartTime + 1}
    /\ utcOffset \in UtcOffsets
    /\ issued = {}
    /\ ticks = 0
    /\ last = Startup
    /\ inflight = {}

NextCodec ==
    \/ \E d \in ClockSteps : Tick(d)
    \/ \E d \in OptionalTimedeltas : GenerateAccessToken("alice", 1, d)
    \/ \E a \in Authorizations : read_current_user(a)
    \/ \E a \in Authorizations : read_task(a)

SpecCodec == InitCodec /\ [][NextCodec]_vars

\* The users router on its own, with passwords that fail each requirement
\* of the password policy.
NextUsers ==
    \/ all_users
    \/ \E i \in UserIds : get_user_id(i)
    \/ \E n \in Names, e \in Emails, p \in {StrongPassword} \cup RejectedPasswords,
          s \in Salts : create_user(n, e, p, s)
    \/ \E i \in UserIds, n \in Names, e \in Emails,
          p \in {OtherPassword} \cup RejectedPasswords,
          s \in Salts : update_user(i, n, e, p, s)
    \/ \E i \in UserIds : delete_user(i)

SpecUsers == InitAccess /\ [][NextUsers]_vars

\* One account through its life: created, renamed, given new passwords,
\* deleted, with logins in between.
CredPasswords == {StrongPassword, OtherPassword, LongPasswordA, LongPasswordB}

NextCred ==
    \/ \E n \in Names, p \in CredPasswords : login(n, p)
    \/ \E p \in CredPasswords, s \in Salts :
          create_user("alice", "alice@example.com", p, s)
    \/ \E n \in Names, p \in CredPasswords, s \in Salts :
          update_user(1, n, "alice@example.com", p, s)
    \/ delete_user(1)

SpecCred == InitAccess /\ [][NextCred]_vars

----------------------------------------------------------------------------
(* Properties *)

\* What the spec calls a valid token: signed with the server's key, carrying
\* the three claims, and the current time not after expires_at.
SignedByServer(token) ==
    token.form = "jwt" /\ token.sig = Sign(token.payload, SECRET_KEY)

ValidToken(token) ==
    /\ SignedByServer(token)
    /\ {"sub", "id", "exp"} \subseteq DOMAIN token.payload
    /\ now <= token.payload.exp * TicksPerSec

\* C1: for every stored user u whose stored hash is hash(p), login(u.name, p)
\* succeeds with token_type "bearer", and read_current_user with the returned
\* token, immediately afterwards, resolves to exactly {username: u.name,
\* id: u.id}.
C1_LoginThenReadCurrentUser ==
    [][\A n \in Names, p \in Passwords :
         \A u \in users :
            (u.name = n /\ bcrypt_verify(p, u.password) /\ login(n, p))
            => /\ last'.status = 200
               /\ last'.body.token_type = "bearer"
               /\ (auth_get_current_user(last.body.access_token))'
                    = Resolved(u.name, u.id)]_vars

\* C2: a login for a name that is not stored and a login with a password that
\* does not verify get the same response, 401 with the same detail and no
\* body, and no token is issued.
C2_InvalidCredentialsMerged ==
    [][\A n \in Names, p \in Passwords :
         (login(n, p)
          /\ (\/ ~\E u \in users : u.name = n
              \/ \E u \in users : u.name = n /\ ~bcrypt_verify(p, u.password)))
         => /\ last'.status = 401
            /\ last'.detail = "incorrect data"
            /\ last'.body = NoBody
            /\ issued' = issued]_vars

\* A stored user was refused for a wrong password.
C2_Witness ==
    /\ last.op = "login"
    /\ last.status = 401
    /\ \E u \in users : u.name = last.req.username

\* The two Session Guards, as the endpoints run them.
Guards(authorization) == {AuthGuard(authorization), TaskGuard(authorization)}

\* C3: a token issued at t0 with ttl T is accepted by the Session Guard at
\* every time t with t0 <= t <= t0 + T and rejected at every t > t0 + T,
\* whatever the UTC offset of the server's clock.
C3_ValidExactlyForTtl ==
    \A i \in issued :
        i.via = "create_access_token" =>
            \A g \in Guards(i.token) :
                g.ok <=> (i.iat <= now /\ now <= i.iat + timedelta(i.ttl))

\* C4: a token whose signature verifies and whose expires_at has passed is
\* refused with an outcome of its own, different from the outcome of a
\* malformed token and of a wrongly signed one.
C4_ExpiredDistinctFromInvalid ==
    \A i \in issued :
        ( /\ {"sub", "id", "exp"} \subseteq DOMAIN i.token.payload
          /\ now > i.token.payload.exp * TicksPerSec )
        => /\ ~AuthGuard(i.token).ok
           /\ AuthGuard(i.token) # AuthGuard(GarbageToken)
           /\ AuthGuard(i.token) # AuthGuard(Resigned(i.token))
           /\ ~TaskGuard(i.token).ok
           /\ TaskGuard(i.token) # TaskGuard(GarbageToken)
           /\ TaskGuard(i.token) # TaskGuard(Resigned(i.token))

\* C5: a request with no token, absent or empty, is refused (401 on
\* /auth/read_current_user) before any handler work, with an outcome that
\* differs from the InvalidToken outcome in both guards.
C5_MissingTokenDistinct ==
    [][\A a \in {NoAuthorization, EmptyToken} :
         /\ read_current_user(a)
            => /\ last'.status = 401
               /\ last'.body = NoBody /\ last'.db = <<>>
               /\ <<last'.status, last'.detail>>
                    # <<AuthGuard(GarbageToken).status, AuthGuard(GarbageToken).detail>>
         /\ read_task(a)
            => /\ last'.status >= 400
               /\ last'.body = NoBody /\ last'.db = <<>>
               /\ <<last'.status, last'.detail>>
                    # <<TaskGuard(GarbageToken).status, TaskGuard(GarbageToken).detail>>
      ]_vars

\* C6: the guards resolve a principal only from a token signed with the
\* server's key, and the principal is that token's {sub, id}; a token signed
\* with another key, or an issued token with its payload altered, gets the
\* InvalidToken outcome.
C6_OnlyServerSignedTokensResolve ==
    \A a \in Authorizations :
        /\ \A g \in Guards(a) :
              g.ok => \E i \in issued :
                        /\ i.token = a
                        /\ g.user = [username |-> i.token.payload.sub,
                                      id |-> i.token.payload.id]
        /\ (a.form = "jwt" /\ ~SignedByServer(a))
            => /\ AuthGuard(a) = AuthGuard(GarbageToken)
               /\ TaskGuard(a) = TaskGuard(GarbageToken)

\* A token signed with another key was refused while the token it was copied
\* from is valid.
C6_Witness ==
    /\ last.op = "read_current_user"
    /\ last.req.authorization.form = "jwt"
    /\ ~SignedByServer(last.req.authorization)
    /\ last.status = 401
    /\ \E i \in issued :
          ValidToken(i.token) /\ last.req.authorization = Resigned(i.token)

\* C7: for a correctly signed, unexpired token both guards check in this
\* order: sub or id missing is 401 (also when exp is missing too), otherwise
\* exp missing is 400, and only a token with all three claims resolves.
C7_ClaimCheckOrder ==
    \A i \in issued :
        LET claims == DOMAIN i.token.payload
            unexpired == "exp" \in claims =>
                            now <= i.token.payload.exp * TicksPerSec
        IN unexpired =>
            \A g \in Guards(i.token) :
                IF "sub" \notin claims \/ "id" \notin claims
                THEN ~g.ok /\ g.status = 401
                ELSE IF "exp" \notin claims
                THEN ~g.ok /\ g.status = 400
                ELSE g.ok

\* A correctly signed token with neither sub nor exp was refused with 401.
C7_Witness ==
    /\ last.op = "read_current_user"
    /\ last.status = 401
    /\ SignedByServer(last.req.authorization)
    /\ DOMAIN last.req.authorization.payload = {"id"}

\* C10: a token issued by login resolves to the {name, id} it was issued
\* for at every time up to its expires_at, whatever has since happened to
\* that user in the store.
C10_ResolutionIgnoresStore ==
    \A i \in issued :
        (i.via = "login" /\ now <= i.token.payload.exp * TicksPerSec)
        => /\ AuthGuard(i.token) = Resolved(i.user.name, i.user.id)
           /\ TaskGuard(i.token) = Resolved(i.user.name, i.user.id)

\* A token resolved after the user it was issued for was renamed or deleted.
C10_Witness ==
    /\ last.op = "read_current_user"
    /\ last.status = 200
    /\ \E i \in issued :
          /\ i.via = "login"
          /\ last.req.authorization = i.token
          /\ ~\E u \in users : u.id = i.user.id /\ u.name = i.user.name

UserOps == {"all_users", "get_user_id", "create_user", "update_user", "delete_user"}
TaskOps == {"create_task", "read_task", "get_task_id", "update_task", "delete_task"}

\* The request of this step carries a valid token.
CarriesValidToken(req) ==
    "authorization" \in DOMAIN req /\ ValidToken(req.authorization)

\* C8 as stated: a request to any CRUD operation on users or tasks that
\* carries no valid token neither queries nor changes the stores.
C8_EveryCrudOperationGuarded ==
    [][(last' # last /\ last'.op \in UserOps \cup TaskOps
        /\ ~CarriesValidToken(last'.req))
       => (UNCHANGED <<users, tasks>> /\ last'.db = <<>>)]_vars

\* C8 as amended: the five task operations are guarded; a task request
\* that carries no valid token is refused with no query, no change and no
\* data in the response.
C8_TaskOperationsGuarded ==
    [][(last' # last /\ last'.op \in TaskOps
        /\ ~CarriesValidToken(last'.req))
       => /\ UNCHANGED <<users, tasks>>
          /\ last'.db = <<>>
          /\ last'.body = NoBody
          /\ last'.status \in {400, 401, 409}]_vars

\* A delete of a stored task was refused for a token signed with another key.
C8_Witness ==
    /\ last.op = "delete_task"
    /\ last.req.authorization.form = "jwt"
    /\ ~ValidToken(last.req.authorization)
    /\ last.status = 409
    /\ \E t \in tasks : t.id = last.req.task_id

\* C9: login and Session Guard resolution, succeeding or failing, leave the
\* user store and the task store as they are; login makes one query, the
\* read of the user by name, and the guards make none.
C9_AuthLeavesStoresUnchanged ==
    [][/\ \A n \in Names, p \in Passwords :
            login(n, p) => /\ UNCHANGED <<users, tasks>>
                           /\ last'.db = <<"SELECT users WHERE name">>
       /\ \A a \in Authorizations :
            read_current_user(a) => /\ UNCHANGED <<users, tasks>>
                                    /\ last'.db = <<>>
       /\ (last' # last /\ last'.op \in TaskOps
           /\ ~TaskGuard(last'.req.authorization).ok)
          => /\ UNCHANGED <<users, tasks>>
             /\ last'.db = <<>>]_vars

\* A login succeeded while both stores held rows.
C9_Witness ==
    /\ last.op = "login"
    /\ last.status = 200
    /\ users # {}
    /\ tasks # {}

----------------------------------------------------------------------------
(* The users router *)

\* C11: create_user with a name, a well-formed email and a password of at
\* least 5 characters, when no stored user has that name or email, returns
\* 201, adds exactly one user and echoes the submitted name and email.
C11_CreateUserAcceptsSchemaPassword ==
    [][\A n \in Names, e \in Emails, p \in Passwords, s \in Salts :
         ( /\ create_user(n, e, p, s)
           /\ Len(p) >= SCHEMA_MIN_PASSWORD_LENGTH
           /\ ~\E u \in users : u.name = n \/ u.email = e )
         => /\ last'.status = 201
            /\ Cardinality(users') = Cardinality(users) + 1
            /\ last'.body.name = n
            /\ last'.body.email = e]_vars

\* C12: create_user with a name or an email of a stored user fails with 400
\* and leaves the user store unchanged; after every create_user, update_user
\* and delete_user the stored names are pairwise distinct and so are the
\* stored emails.
C12_UniqueNamesAndEmails ==
    [][/\ ( /\ last'.op = "create_user"
             /\ last' # last
             /\ \E u \in users : \/ u.name = last'.req.name
                                 \/ u.email = last'.req.email )
            => /\ last'.status = 400
               /\ users' = users
       /\ \A u1, u2 \in users' :
            (u1.name = u2.name \/ u1.email = u2.email) => u1 = u2]_vars

\* A new name with the email of a stored user was refused by the UNIQUE
\* constraint.
C12_Witness ==
    /\ last.op = "create_user"
    /\ last.status = 400
    /\ last.detail = "this user already exists"
    /\ ~\E u \in users : u.name = last.req.name
    /\ \E u \in users : u.email = last.req.email

----------------------------------------------------------------------------
(* The tasks router *)

\* C13: task operations are scoped to the owner.  For a resolved principal u
\* and a stored task t of another user: read_task(u) does not return t;
\* get_task_id, update_task and delete_task on t.id by u answer 404 and leave
\* t as it is; create_task(u) stores the new task with user_id = u.id; and no
\* step changes the user_id of a task.
C13_TasksScopedToOwner ==
    [][/\ ( /\ last' # last
            /\ last'.op \in TaskOps
            /\ TaskGuard(last'.req.authorization).ok )
          => LET u == TaskGuard(last'.req.authorization).user
                 foreign == {t \in tasks : t.user_id # u.id}
             IN /\ foreign \subseteq tasks'
                /\ last'.op = "read_task"
                     => \A t \in foreign : \A x \in last'.body.items : x.id # t.id
                /\ ( /\ last'.op \in {"get_task_id", "update_task", "delete_task"}
                     /\ \E t \in foreign : t.id = last'.req.task_id )
                     => last'.status = 404
                /\ (last'.op = "create_task" /\ last'.status = 201)
                     => /\ tasks' # tasks
                        /\ \A t \in tasks' \ tasks : t.user_id = u.id
       /\ \A t \in tasks, t2 \in tasks' :
            t2.id = t.id => t2.user_id = t.user_id]_vars

\* An update of a stored task was refused with 404 to a principal who does
\* not own it.
C13_Witness ==
    /\ last.op = "update_task"
    /\ last.status = 404
    /\ TaskGuard(last.req.authorization).ok
    /\ \E t \in tasks :
          /\ t.id = last.req.task_id
          /\ t.user_id # TaskGuard(last.req.authorization).user.id

\* C14: create_task answers 400 and stores nothing whenever a stored task, of
\* any user, has the requested title; so no two stored tasks ever have the
\* same title, also when create_task requests of different sessions
\* interleave.
C14_TitlesUnique ==
    [][/\ ( /\ last' # last
            /\ last'.op = "create_task"
            /\ TaskGuard(last'.req.authorization).ok
            /\ \E t \in tasks : t.title = last'.req.title )
          => /\ last'.status = 400
             /\ tasks' = tasks
       /\ \A t1, t2 \in tasks' : t1.title = t2.title => t1 = t2]_vars

\* C15: all_users answers 404 when the user store is empty and the full list
\* of stored users when it is not; it answers 500 only on an internal error
\* (none occurs here: the SELECT always succeeds).
C15_AllUsersStatuses ==
    [][all_users
       => /\ users = {} => last'.status = 404
          /\ users # {} => /\ last'.status = 200
                           /\ last'.body.items = {ReadUser(u) : u \in users}
          /\ last'.status # 500]_vars

----------------------------------------------------------------------------
(* The token codec *)

\* C16: decoding with the server key does not check expiry: for every
\* correctly signed token, jwt.decode and verify_access_token return the
\* claims unmodified whether or not expires_at has passed, and an expired
\* token with all three claims is refused by the guard's own comparison of
\* now with expires_at (403 in routers.auth, 401 "token lifetime expired" in
\* crud).
C16_DecodeIgnoresExpiry ==
    \A i \in issued :
        /\ jwt_decode(i.token, SECRET_KEY) = [ok |-> TRUE, payload |-> i.token.payload]
        /\ verify_access_token(i.token) = [ok |-> TRUE, payload |-> i.token.payload]
        /\ ( /\ {"sub", "id", "exp"} \subseteq DOMAIN i.token.payload
             /\ now > i.token.payload.exp * TicksPerSec )
           => /\ auth_get_current_user(i.token) = HTTPException(403, "token expired")
              /\ crud_get_current_user(i.token)
                   = HTTPException(401, "token lifetime expired")

\* C17: crud.create_access_token sets expires_at = now + ttl for every ttl
\* the caller supplies, a zero ttl included, and uses the 15-minute default
\* exactly when no ttl is supplied; the issued claims are the input claims
\* plus exp.
C17_ExpiryIsNowPlusTtl ==
    \A i \in issued :
        i.via = "generate_access_token" =>
            LET ttl == IF i.ttl = NoTimedelta THEN DEFAULT_EXPIRE_SECONDS
                       ELSE i.ttl[1]
                payload == i.token.payload
            IN /\ DOMAIN payload = DOMAIN i.data \cup {"exp"}
               /\ \A k \in DOMAIN i.data : payload[k] = i.data[k]
               /\ payload.exp = (i.iat + timedelta(ttl)) \div TicksPerSec

----------------------------------------------------------------------------
(* The password policy and missing users *)

\* What the claim calls a rejected password: shorter than 8 characters, or
\* lacking an uppercase letter, a lowercase letter, a digit or a listed
\* special character.
RejectedByPolicy(password) ==
    \/ Len(password) < 8
    \/ ~HasChar(password, UpperChars)
    \/ ~HasChar(password, LowerChars)
    \/ ~HasChar(password, DigitChars)
    \/ ~HasChar(password, SpecialChars)

StoredId(user_id) == \E u \in users : u.id = user_id

----------------------------------------------------------------------------
(* Credentials across user operations *)

\* C19: after update_user succeeds with new name n2 and new strong password
\* p2 on a user with old name n1 and old password p1 # p2, login(n2, p2)
\* succeeds and login(n1, p1) and login(n2, p1) fail with InvalidCredentials;
\* after delete_user succeeds, every login for the deleted name fails with
\* InvalidCredentials.
C19_CredentialsFollowStore ==
    [][\A old \in users, n2 \in Names, p2 \in CredPasswords :
         /\ ( /\ last' # last
              /\ last'.op = "update_user" /\ last'.status = 200
              /\ last'.req.user_id = old.id
              /\ last'.req.name = n2 /\ last'.req.password = p2 )
            => /\ (authenticate_user(n2, p2))'.ok
               /\ \A p1 \in CredPasswords :
                    (p1 # p2 /\ bcrypt_verify(p1, old.password))
                    => /\ (authenticate_user(old.name, p1))'
                            = HTTPException(401, "incorrect data")
                       /\ (authenticate_user(n2, p1))'
                            = HTTPException(401, "incorrect data")
         /\ ( /\ last' # last
              /\ last'.op = "delete_user" /\ last'.status = 204
              /\ last'.req.user_id = old.id )
            => \A p \in CredPasswords :
                  (authenticate_user(old.name, p))'
                     = HTTPException(401, "incorrect data")]_vars

----------------------------------------------------------------------------
(* The two Session Guards side by side *)

\* C20: the two guards accept the same tokens.  For every Authorization
\* header (absent, empty, malformed, wrongly signed, expired, with claims
\* missing, valid) and every time, crud.get_current_user and
\* routers.auth.get_current_user either both resolve, to the same
\* {username, id}, or both reject; only the rejection's status may differ.
C20_GuardsAcceptSameTokens ==
    \A a \in Authorizations :
        /\ AuthGuard(a).ok <=> TaskGuard(a).ok
        /\ AuthGuard(a).ok => AuthGuard(a).user = TaskGuard(a).user

\* An expired, correctly signed token with all three claims was refused by
\* the crud guard with 409 where the auth guard answers 401.
C20_Witness ==
    /\ last.op = "read_task"
    /\ last.status = 409
    /\ SignedByServer(last.req.authorization)
    /\ {"sub", "id", "exp"} \subseteq DOMAIN last.req.authorization.payload
    /\ ~ValidToken(last.req.authorization)
    /\ AuthGuard(last.req.authorization).status = 401

----------------------------------------------------------------------------
(* Task statuses *)

\* C21: after any sequence of create_task, update_task and delete_task, the
\* status of each stored task is one of the three permitted values ("New",
\* "InProgress", "Done" stand for the three Russian literals of CreateTask);
\* a request carrying any other status is rejected and leaves the task store
\* unchanged.
C21_StoredStatusesPermitted ==
    [][/\ \A t \in tasks' : t.status \in Statuses
       /\ ( /\ last' # last
            /\ last'.op \in {"create_task", "update_task"}
            /\ TaskGuard(last'.req.authorization).ok
            /\ last'.req.status \notin Statuses )
          => /\ last'.status >= 400
             /\ tasks' = tasks]_vars

====
